---- MODULE Spec2Model ----
(***************************************************************************)
(* Loan Management API (src/app.js): JWT login, the authentication and     *)
(* role gates, the role-sensitive response shaper and the loan handlers.   *)
(*                                                                         *)
(* Express runs a route's middleware chain synchronously (no handler of    *)
(* app.js awaits anything), so one request is one atomic step.  A request  *)
(* and its response stay visible in req/res/user/stages until EndRequest.  *)
(*                                                                         *)
(* Time is in seconds.  JavaScript strings that the code tests for         *)
(* emptiness or lower-cases (emails, passwords) are sequences of           *)
(* characters; a JavaScript value that may be undefined is a record with   *)
(* a type tag t.  An object's identity is its field ref.                   *)
(***************************************************************************)
EXTENDS Integers, Sequences, FiniteSets, TLC

VARIABLES
    now,        \* the clock (Date.now() / 1000)
    staffsData, \* app.js:14
    loansData,  \* app.js:15
    issued,     \* every token jwt.sign has returned so far (client side)
    phase,      \* "idle" | "responded"
    req,        \* the request handled last
    res,        \* its response
    user,       \* req.user
    stages,     \* the pipeline stages the request went through, in order
    acked,      \* history: the loan ids a DELETE has answered 200 for
    loggedOut,  \* history: a logout was answered after the last token was issued
    conc        \* the request contexts (req, req.user, res) of the requests in flight

vars ==
    <<now, staffsData, loansData, issued, phase, req, res, user, stages, acked, loggedOut,
      conc>>

-----------------------------------------------------------------------------
\* Bounds of the model
MaxTime == 4800
TickStep == 1200
MaxIssued == 2
NumSlots == 2

\* expiresIn: '1h' (app.js:126), in seconds
TokenTTL == 3600

JWT_SECRET == "your-secret-key"
AttackerKey == "not-the-secret"

-----------------------------------------------------------------------------
\* JavaScript values
Undefined == [t |-> "undefined"]
Str(s) == [t |-> "string", v |-> s]

Truthy_definedOnly(x) == x.t = "string"

\* !x is false: x is a non-empty string (sequence of characters)
Truthy(x) == x.t = "string" /\ x.v # <<>>

\* a === b
StrictEq(a, b) == a.t = b.t /\ (a.t = "string" => a.v = b.v)

\* String.prototype.toLowerCase on a sequence of characters
LowerChar(c) ==
    CASE c = "A" -> "a"
      [] c = "B" -> "b"
      [] c = "E" -> "e"
      [] c = "J" -> "j"
      [] c = "M" -> "m"
      [] c = "X" -> "x"
      [] OTHER -> c

toLowerCase_identity(s) == s

toLowerCase(s) == [i \in 1..Len(s) |-> LowerChar(s[i])]

\* new Date(string), as seconds: the stored strings carry hours and minutes
NaN == -1
NewDate(d) == IF d.valid THEN d.h * 3600 + d.m * 60 ELSE NaN
DateLess_orEqual(a, b) == a # NaN /\ b # NaN /\ a <= b

\* a < b on Dates: any comparison with an Invalid Date is false
DateLess(a, b) == a # NaN /\ b # NaN /\ a < b

-----------------------------------------------------------------------------
\* The data files
InitStaffs ==
    << [id |-> 1, name |-> "Edwin John", email |-> <<"e", "@", "x">>,
        password |-> <<"p", "1">>, role |-> "staff"],
       [id |-> 2, name |-> "Ada Admin", email |-> <<"a", "@", "x">>,
        password |-> <<"p", "2">>, role |-> "admin"],
       [id |-> 3, name |-> "Sam Super", email |-> <<"s", "@", "x">>,
        password |-> <<"p", "3">>, role |-> "superAdmin"] >>

DateStr(h, m) == [valid |-> TRUE, h |-> h, m |-> m]

InitLoans ==
    << [ref |-> 1, id |-> "900199", amount |-> 500, status |-> "active",
        maturityDate |-> DateStr(0, 20),
        applicant |-> [ref |-> 2, name |-> "Michael Brown",
                       email |-> <<"M", "b", "@", "X">>, totalLoan |-> 500]],
       [ref |-> 3, id |-> "900200", amount |-> 700, status |-> "pending",
        maturityDate |-> DateStr(0, 40),
        applicant |-> [ref |-> 4, name |-> "Michael Brown",
                       email |-> <<"m", "b", "@", "x">>, totalLoan |-> 1200]],
       [ref |-> 5, id |-> "900201", amount |-> 900, status |-> "active",
        maturityDate |-> DateStr(2, 0),
        applicant |-> [ref |-> 6, name |-> "Jane Doe",
                       email |-> <<"j", "@", "x">>, totalLoan |-> 900]] >>

\* the addresses below HeapBase hold the objects of the loan store
HeapBase(loans) == 2 * Len(loans)

-----------------------------------------------------------------------------
\* Tokens (jsonwebtoken)
Absent == [kind |-> "absent"]        \* undefined
Empty == [kind |-> "empty"]          \* ''
Malformed == [kind |-> "malformed"]  \* a string that is no JWT

\* jwt.sign(payload, secret, { expiresIn: '1h' })
jwtSign(payload, secret, t) ==
    [kind |-> "jwt", id |-> payload.id, name |-> payload.name,
     email |-> payload.email, role |-> payload.role,
     iat |-> t, exp |-> t + TokenTTL, key |-> secret]

\* a token re-signed by someone who does not hold the secret, claiming superAdmin
Forge(tok) == [tok EXCEPT !.role = "superAdmin", !.key = AttackerKey]

\* An error object.  A message is the sequence of the parts of its template
\* literal (one part for a plain string, none for '').
Err(name, message, statusCode) ==
    [name |-> name, message |-> <<message>>, statusCode |-> statusCode]
NoErr == [name |-> "", message |-> <<>>, statusCode |-> 0]

\* the clock read in milliseconds against an exp in seconds
jwtVerify_msClock(token, secret, t) ==
    IF token.kind # "jwt"
    THEN [ok |-> FALSE, error |-> Err("JsonWebTokenError", "jwt malformed", 0)]
    ELSE IF token.key # secret
    THEN [ok |-> FALSE, error |-> Err("JsonWebTokenError", "invalid signature", 0)]
    ELSE IF t * 1000 >= token.exp
    THEN [ok |-> FALSE, error |-> Err("TokenExpiredError", "jwt expired", 0)]
    ELSE [ok |-> TRUE,
          decoded |-> [id |-> token.id, name |-> token.name, email |-> token.email,
                       role |-> token.role, iat |-> token.iat, exp |-> token.exp]]

\* jwt.verify(token, secret): the decoded payload, or the error it throws.
\* A statusCode of 0 is an error object without a statusCode property.
jwtVerify(token, secret, t) ==
    IF token.kind # "jwt"
    THEN [ok |-> FALSE, error |-> Err("JsonWebTokenError", "jwt malformed", 0)]
    ELSE IF token.key # secret
    THEN [ok |-> FALSE, error |-> Err("JsonWebTokenError", "invalid signature", 0)]
    ELSE IF t >= token.exp
    THEN [ok |-> FALSE, error |-> Err("TokenExpiredError", "jwt expired", 0)]
    ELSE [ok |-> TRUE,
          decoded |-> [id |-> token.id, name |-> token.name, email |-> token.email,
                       role |-> token.role, iat |-> token.iat, exp |-> token.exp]]

-----------------------------------------------------------------------------
\* Requests and responses
NoHeader == [present |-> FALSE, scheme |-> "", token |-> Absent]
\* "Authorization: <scheme> <token>"; a header of one word has no second part
AuthHeader(scheme, tok) == [present |-> TRUE, scheme |-> scheme, token |-> tok]

NoBody == [email |-> Undefined, password |-> Undefined]
NoQuery == [status |-> Undefined]
NoParams == [userEmail |-> <<>>, loanId |-> ""]

Request(route, originalUrl, cookie, header, body, query, params) ==
    [route |-> route, originalUrl |-> originalUrl, cookies |-> [token |-> cookie],
     authorization |-> header, body |-> body, query |-> query, params |-> params]

NoReq == Request("none", "", Absent, NoHeader, NoBody, NoQuery, NoParams)
NoRes == [status |-> 0, setCookie |-> [op |-> "none"], body |-> [status |-> "none"]]

NoCookie == [op |-> "none"]

\* res.status(code).json(body)
Json(code, setCookie, body) == [status |-> code, setCookie |-> setCookie, body |-> body]

\* errorHandler (app.js:32): err.statusCode || 500, err.message || 'Internal Server Error'
errorHandler(err) ==
    LET statusCode == IF err.statusCode # 0 THEN err.statusCode ELSE 500
        message == IF err.message # <<>> THEN err.message ELSE <<"Internal Server Error">>
    IN Json(statusCode, NoCookie,
            [status |-> "error", statusCode |-> statusCode, message |-> message])

-----------------------------------------------------------------------------
\* Authentication middleware

\* a token string is truthy: neither undefined nor ''
TokenTruthy(tok) == tok.kind \notin {"absent", "empty"}

\* req.headers.authorization?.split(' ')[1]
HeaderToken(h) == IF h.present THEN h.token ELSE Absent

\* const token = req.cookies.token || req.headers.authorization?.split(' ')[1]
extractToken_headerFirst(r) ==
    IF TokenTruthy(HeaderToken(r.authorization))
    THEN HeaderToken(r.authorization) ELSE r.cookies.token

extractToken_cookieOnly(r) == r.cookies.token

extractToken(r) ==
    IF TokenTruthy(r.cookies.token) THEN r.cookies.token
    ELSE HeaderToken(r.authorization)

\* authMiddleware (app.js:46): next() with req.user bound, or next(error)
authMiddleware(r, t) ==
    LET token == extractToken(r) IN
    IF ~TokenTruthy(token)
    THEN [ok |-> FALSE, user |-> Undefined,
          error |-> Err("Error", "Unauthorized - No token provided", 401)]
    ELSE LET v == jwtVerify(token, JWT_SECRET, t) IN
         IF v.ok
         THEN [ok |-> TRUE, user |-> v.decoded, error |-> NoErr]
         ELSE [ok |-> FALSE, user |-> Undefined,
               error |-> IF v.error.name = "JsonWebTokenError"
                         THEN [v.error EXCEPT !.message = <<"Unauthorized - Invalid token">>,
                                              !.statusCode = 401]
                         ELSE v.error]

authorizeRoles_adminToo(roles, u) ==
    IF u.role \notin roles \cup {"admin"}
    THEN [ok |-> FALSE, error |-> Err("Error", "Forbidden - Insufficient permissions", 403)]
    ELSE [ok |-> TRUE, error |-> NoErr]

\* authorizeRoles(...roles) (app.js:69)
authorizeRoles(roles, u) ==
    IF u.role \notin roles
    THEN [ok |-> FALSE, error |-> Err("Error", "Forbidden - Insufficient permissions", 403)]
    ELSE [ok |-> TRUE, error |-> NoErr]

-----------------------------------------------------------------------------
\* Response shaper

\* { ...obj } : a new object with the same properties
Spread(obj, newRef) == [obj EXCEPT !.ref = newRef]
\* delete obj[key]
Delete(obj, key) == [f \in DOMAIN obj \ {key} |-> obj[f]]

processLoansByRole_neverRedacts(loans, userRole) ==
    [i \in 1..Len(loans) |->
        Spread(loans[i], HeapBase(loansData) + 2 * (i - 1) + 1)]

processLoansByRole_reverses(loans, userRole) ==
    [i \in 1..Len(loans) |->
        LET loan == loans[Len(loans) + 1 - i]
            base == HeapBase(loansData) + 2 * (i - 1)
            processedLoan == Spread(loan, base + 1)
        IN IF userRole = "staff"
           THEN [processedLoan EXCEPT
                    !.applicant = Delete(Spread(loan.applicant, base + 2), "totalLoan")]
           ELSE processedLoan]

\* processLoansByRole (app.js:81).  The i-th callback allocates its objects at
\* the first free addresses after the store's.
processLoansByRole(loans, userRole) ==
    [i \in 1..Len(loans) |->
        LET loan == loans[i]
            base == HeapBase(loansData) + 2 * (i - 1)
            processedLoan == Spread(loan, base + 1)
        IN IF userRole = "staff"
           THEN [processedLoan EXCEPT
                    !.applicant = Delete(Spread(loan.applicant, base + 2), "totalLoan")]
           ELSE processedLoan]

LoansEnvelope(processedLoans) ==
    Json(200, NoCookie,
         [status |-> "success", results |-> Len(processedLoans),
          data |-> [loans |-> processedLoans]])

-----------------------------------------------------------------------------
\* Handlers.  Each yields the response, req.user and the stages gone through.
Outcome(response, u, st) == [res |-> response, user |-> u, stages |-> st]

\* app.use(errorHandler) (app.js:260): where every next(error) ends
Fail(err, u, st) == Outcome(errorHandler(err), u, Append(st, "ErrorResponder"))

statusProvided_definedOnly(status) == status.t = "string"

\* if (status) (app.js:167): neither undefined nor ''
statusProvided(status) == status.t = "string" /\ status.v # ""

\* the handler of app.get('/api/loans') (app.js:161), after authMiddleware
loansHandler(r, u) ==
    LET status == r.query.status
        all == loansData                                   \* [...loansData]
        filteredLoans ==
            IF statusProvided(status)                       \* if (status)
            THEN SelectSeq(all, LAMBDA loan : loan.status = status.v)
            ELSE all
        processedLoans == processLoansByRole(filteredLoans, u.role)
    IN Outcome(LoansEnvelope(processedLoans), u,
               <<"AuthGate", "StoreQuery", "ResponseShaper", "Envelope">>)

\* the handler of app.get('/api/expired-loans') (app.js:187)
expiredLoansHandler(r, u, t) ==
    LET currentDate == t                                    \* new Date()
        expiredLoans ==
            SelectSeq(loansData,
                      LAMBDA loan : DateLess(NewDate(loan.maturityDate), currentDate))
        processedLoans == processLoansByRole(expiredLoans, u.role)
    IN Outcome(LoansEnvelope(processedLoans), u,
               <<"AuthGate", "StoreQuery", "ResponseShaper", "Envelope">>)

\* the handler of app.get('/api/user-loans/:userEmail') (app.js:212)
userLoansHandler(r, u) ==
    LET userEmail == r.params.userEmail
        userLoans ==
            SelectSeq(loansData,
                      LAMBDA loan : toLowerCase(loan.applicant.email) = toLowerCase(userEmail))
        processedLoans == processLoansByRole(userLoans, u.role)
    IN Outcome(LoansEnvelope(processedLoans), u,
               <<"AuthGate", "StoreQuery", "ResponseShaper", "Envelope">>)

\* the handler of app.delete('/api/loans/:loanId') (app.js:236), after both gates
deleteLoanHandler(r, u) ==
    LET loanId == r.params.loanId
        loanExists == \E i \in 1..Len(loansData) : loansData[i].id = loanId
    IN IF ~loanExists
       THEN Fail(Err("Error", "Loan not found", 404), u,
                 <<"AuthGate", "RoleGate", "StoreQuery">>)
       ELSE Outcome(Json(200, NoCookie,
                         [status |-> "success",
                          message |-> <<"Loan with ID ", loanId, " has been deleted">>]),
                    u, <<"AuthGate", "RoleGate", "StoreQuery", "Envelope">>)

\* What a DELETE answered 200 leaves in loansData: the handler (app.js:250)
\* only acknowledges, it removes nothing
deleteEffect_remove(loans, loanId) == SelectSeq(loans, LAMBDA loan : loan.id # loanId)

deleteEffect(loans, loanId) == loans

\* app.get('/api/loans', authMiddleware, handler)
loansRoute(r, t) ==
    LET a == authMiddleware(r, t) IN
    IF a.ok THEN loansHandler(r, a.user) ELSE Fail(a.error, Undefined, <<"AuthGate">>)

\* app.get('/api/expired-loans', authMiddleware, handler)
expiredLoansRoute(r, t) ==
    LET a == authMiddleware(r, t) IN
    IF a.ok THEN expiredLoansHandler(r, a.user, t)
    ELSE Fail(a.error, Undefined, <<"AuthGate">>)

\* app.get('/api/user-loans/:userEmail', authMiddleware, handler)
userLoansRoute(r, t) ==
    LET a == authMiddleware(r, t) IN
    IF a.ok THEN userLoansHandler(r, a.user) ELSE Fail(a.error, Undefined, <<"AuthGate">>)

deleteLoanRoute_existenceFirst(r, t) ==
    LET a == authMiddleware(r, t) IN
    IF ~a.ok THEN Fail(a.error, Undefined, <<"AuthGate">>)
    ELSE IF \A i \in 1..Len(loansData) : loansData[i].id # r.params.loanId
    THEN Fail(Err("Error", "Loan not found", 404), a.user, <<"AuthGate", "StoreQuery">>)
    ELSE LET z == authorizeRoles({"superAdmin"}, a.user) IN
         IF ~z.ok THEN Fail(z.error, a.user, <<"AuthGate", "StoreQuery", "RoleGate">>)
         ELSE Outcome(Json(200, NoCookie,
                           [status |-> "success",
                            message |-> <<"Loan with ID ", r.params.loanId,
                                          " has been deleted">>]),
                      a.user, <<"AuthGate", "StoreQuery", "RoleGate", "Envelope">>)

\* app.delete(path, authMiddleware, authorizeRoles('superAdmin'), handler)
deleteLoanRoute(r, t) ==
    LET a == authMiddleware(r, t) IN
    IF ~a.ok THEN Fail(a.error, Undefined, <<"AuthGate">>)
    ELSE LET z == authorizeRoles({"superAdmin"}, a.user) IN
         IF ~z.ok THEN Fail(z.error, a.user, <<"AuthGate", "RoleGate">>)
         ELSE deleteLoanHandler(r, a.user)

findStaff_ignoresCase(email) ==
    LET hits == {i \in 1..Len(staffsData) :
                    /\ email.t = "string"
                    /\ toLowerCase(staffsData[i].email) = toLowerCase(email.v)}
    IN IF hits = {} THEN 0 ELSE CHOOSE i \in hits : \A j \in hits : i <= j

passwordValid_always(password, staff) == TRUE

\* const isPasswordValid = password === staff.password (app.js:115)
passwordValid(password, staff) == StrictEq(password, Str(staff.password))

\* staffsData.find(s => s.email === email): the index of the first match, or 0
findStaff(email) ==
    LET hits == {i \in 1..Len(staffsData) : StrictEq(Str(staffsData[i].email), email)}
    IN IF hits = {} THEN 0 ELSE CHOOSE i \in hits : \A j \in hits : i <= j

\* app.post('/api/login') (app.js:96)
loginHandler(r, t) ==
    LET email == r.body.email
        password == r.body.password
        idx == findStaff(email)
    IN IF ~Truthy(email) \/ ~Truthy(password)
       THEN Fail(Err("Error", "Email and password are required", 400), Undefined, <<>>)
       ELSE IF idx = 0
       THEN Fail(Err("Error", "Invalid credentials", 401), Undefined,
                 <<"CredentialLookup">>)
       ELSE LET staff == staffsData[idx]
                isPasswordValid == passwordValid(password, staff)
                token == jwtSign([id |-> staff.id, name |-> staff.name,
                                  email |-> staff.email, role |-> staff.role],
                                 JWT_SECRET, t)
            IN IF ~isPasswordValid
               THEN Fail(Err("Error", "Invalid credentials", 401), Undefined,
                         <<"CredentialLookup">>)
               ELSE Outcome(
                      Json(200,
                           [op |-> "set", name |-> "token", value |-> token,
                            httpOnly |-> TRUE, maxAge |-> 3600000],
                           [status |-> "success", message |-> <<"Login successful">>,
                            data |-> [user |-> [id |-> staff.id, name |-> staff.name,
                                                email |-> staff.email, role |-> staff.role],
                                      token |-> token]]),
                      Undefined, <<"CredentialLookup", "IssueToken", "Envelope">>)

\* app.post('/api/logout') (app.js:152)
logoutHandler(r) ==
    Outcome(Json(200, [op |-> "clear", name |-> "token"],
                 [status |-> "success", message |-> <<"Logout successful">>]),
            Undefined, <<"Envelope">>)

notFoundHandler_asError(r) ==
    Outcome(errorHandler(Err("Error", "Not found", 404)), Undefined, <<"NotFound">>)

\* app.use(/(.*)/, ...) (app.js:263): no route matched
notFoundHandler(r) ==
    Outcome(Json(404, NoCookie,
                 [status |-> "error",
                  message |-> <<"Route ", r.originalUrl, " not found">>]),
            Undefined, <<"NotFound">>)

-----------------------------------------------------------------------------
\* What a client can send
CookieInputs == {Absent, Empty, Malformed} \cup issued
HeaderInputs ==
    {NoHeader, AuthHeader("Bearer", Absent)}
        \cup {AuthHeader("Bearer", tok) : tok \in issued}
        \cup {AuthHeader("Bearer", Forge(tok)) : tok \in issued}
\* for the routes that never look at the token
PlainCookieInputs == {Absent} \cup issued
PlainHeaderInputs == {NoHeader} \cup {AuthHeader("Bearer", tok) : tok \in issued}

EmailInputs ==
    {Undefined, Str(<<>>), Str(<<"e", "@", "x">>), Str(<<"a", "@", "x">>),
     Str(<<"s", "@", "x">>), Str(<<"E", "@", "x">>), Str(<<"n", "@", "x">>)}
PasswordInputs ==
    {Undefined, Str(<<>>), Str(<<"p", "1">>), Str(<<"p", "2">>), Str(<<"p", "3">>)}
StatusInputs == {Undefined, Str(""), Str("active"), Str("closed")}
UserEmailInputs ==
    {<<"m", "b", "@", "x">>, <<"M", "B", "@", "x">>, <<"j", "@", "x">>, <<"n", "@", "x">>}
LoanIdInputs == {"900199", "000000"}

-----------------------------------------------------------------------------
\* Requests in flight.  Each has its own req object, so its own req.user.
Slots == 1..NumSlots
FreeSlot == [stage |-> "free", req |-> NoReq, user |-> Undefined, res |-> NoRes]

Init ==
    /\ conc = [s \in Slots |-> FreeSlot]
    /\ now = 0
    /\ staffsData = InitStaffs
    /\ loansData = InitLoans
    /\ issued = {}
    /\ acked = {}
    /\ loggedOut = FALSE
    /\ phase = "idle"
    /\ req = NoReq
    /\ res = NoRes
    /\ user = Undefined
    /\ stages = <<>>

\* the request r was answered with outcome o
Answer(r, o) ==
    /\ phase' = "responded"
    /\ req' = r
    /\ res' = o.res
    /\ user' = o.user
    /\ stages' = o.stages

Login ==
    /\ phase = "idle"
    /\ \E email \in EmailInputs, password \in PasswordInputs :
         LET r == Request("POST /api/login", "/api/login", Absent, NoHeader,
                          [email |-> email, password |-> password], NoQuery, NoParams)
             o == loginHandler(r, now)
         IN /\ Answer(r, o)
            /\ issued' = IF o.res.status = 200
                         THEN issued \cup {o.res.body.data.token} ELSE issued
            /\ Cardinality(issued') <= MaxIssued
            /\ loggedOut' = IF o.res.status = 200 THEN FALSE ELSE loggedOut
    /\ UNCHANGED <<conc, now, staffsData, loansData, acked>>

Logout ==
    /\ phase = "idle"
    /\ \E cookie \in PlainCookieInputs, header \in PlainHeaderInputs :
         LET r == Request("POST /api/logout", "/api/logout", cookie, header,
                          NoBody, NoQuery, NoParams)
         IN Answer(r, logoutHandler(r))
    /\ loggedOut' = TRUE
    /\ UNCHANGED <<conc, now, staffsData, loansData, issued, acked>>

GetLoans ==
    /\ phase = "idle"
    /\ \E cookie \in CookieInputs, header \in HeaderInputs, status \in StatusInputs :
         LET r == Request("GET /api/loans", "/api/loans", cookie, header,
                          NoBody, [status |-> status], NoParams)
         IN Answer(r, loansRoute(r, now))
    /\ UNCHANGED <<conc, now, staffsData, loansData, issued, acked, loggedOut>>

GetExpiredLoans ==
    /\ phase = "idle"
    /\ \E cookie \in CookieInputs, header \in HeaderInputs :
         LET r == Request("GET /api/expired-loans", "/api/expired-loans", cookie, header,
                          NoBody, NoQuery, NoParams)
         IN Answer(r, expiredLoansRoute(r, now))
    /\ UNCHANGED <<conc, now, staffsData, loansData, issued, acked, loggedOut>>

GetUserLoans ==
    /\ phase = "idle"
    /\ \E cookie \in CookieInputs, header \in HeaderInputs, userEmail \in UserEmailInputs :
         LET r == Request("GET /api/user-loans/:userEmail", "/api/user-loans/:userEmail",
                          cookie, header, NoBody, NoQuery,
                          [userEmail |-> userEmail, loanId |-> ""])
         IN Answer(r, userLoansRoute(r, now))
    /\ UNCHANGED <<conc, now, staffsData, loansData, issued, acked, loggedOut>>

DeleteLoan ==
    /\ phase = "idle"
    /\ \E cookie \in CookieInputs, header \in HeaderInputs, loanId \in LoanIdInputs :
         LET r == Request("DELETE /api/loans/:loanId", "/api/loans/:loanId",
                          cookie, header, NoBody, NoQuery,
                          [userEmail |-> <<>>, loanId |-> loanId])
             o == deleteLoanRoute(r, now)
         IN /\ Answer(r, o)
            /\ acked' = IF o.res.status = 200 THEN acked \cup {loanId} ELSE acked
            /\ loansData' = IF o.res.status = 200
                             THEN deleteEffect(loansData, loanId) ELSE loansData
    /\ UNCHANGED <<conc, now, staffsData, issued, loggedOut>>

Unmatched ==
    /\ phase = "idle"
    /\ \E cookie \in PlainCookieInputs, header \in PlainHeaderInputs,
          url \in {"/api/loans/expired", "/nothing"} :
         LET r == Request("unmatched", url, cookie, header, NoBody, NoQuery, NoParams)
         IN Answer(r, notFoundHandler(r))
    /\ UNCHANGED <<conc, now, staffsData, loansData, issued, acked, loggedOut>>

\* the response has been sent; the request's objects are garbage
EndRequest ==
    /\ phase = "responded"
    /\ phase' = "idle"
    /\ req' = NoReq
    /\ res' = NoRes
    /\ user' = Undefined
    /\ stages' = <<>>
    /\ UNCHANGED <<conc, now, staffsData, loansData, issued, acked, loggedOut>>

Tick ==
    /\ phase = "idle"
    /\ now + TickStep <= MaxTime
    /\ now' = now + TickStep
    /\ UNCHANGED <<conc, staffsData, loansData, issued, acked, loggedOut,
                   phase, req, res, user, stages>>

Next ==
    \/ Login
    \/ Logout
    \/ GetLoans
    \/ GetExpiredLoans
    \/ GetUserLoans
    \/ DeleteLoan
    \/ Unmatched
    \/ EndRequest
    \/ Tick

Spec == Init /\ [][Next]_vars

-----------------------------------------------------------------------------
\* Concurrent requests.  Express calls each middleware of a request in turn;
\* here the steps of different requests interleave freely, which allows every
\* interleaving the event loop can produce and more.

\* req.user = decoded, on the request's own req (app.js:57)
bindUser_global(c, s, decoded) ==
    [k \in DOMAIN c |->
        IF k = s THEN [c[k] EXCEPT !.user = decoded, !.stage = "authenticated"]
        ELSE [c[k] EXCEPT !.user = decoded]]

bindUser(c, s, decoded) == [c EXCEPT ![s].user = decoded, ![s].stage = "authenticated"]

\* the staff members of the first MaxIssued records have logged in at time 0
InitConc ==
    /\ conc = [s \in Slots |-> FreeSlot]
    /\ now = 0
    /\ staffsData = InitStaffs
    /\ loansData = InitLoans
    /\ issued = {jwtSign([id |-> InitStaffs[i].id, name |-> InitStaffs[i].name,
                          email |-> InitStaffs[i].email, role |-> InitStaffs[i].role],
                         JWT_SECRET, 0) :
                    i \in {k \in 1..Len(InitStaffs) : k <= MaxIssued}}
    /\ acked = {}
    /\ loggedOut = FALSE
    /\ phase = "idle"
    /\ req = NoReq
    /\ res = NoRes
    /\ user = Undefined
    /\ stages = <<>>

ConcFrame ==
    UNCHANGED <<now, staffsData, loansData, issued, phase, req, res, user, stages,
                acked, loggedOut>>

\* a request arrives: GET /api/loans or DELETE /api/loans/:loanId
Arrive(s) ==
    /\ conc[s].stage = "free"
    /\ \E header \in PlainHeaderInputs, loanId \in {"", "900199"} :
         LET r == IF loanId = ""
                  THEN Request("GET /api/loans", "/api/loans", Absent, header,
                               NoBody, NoQuery, NoParams)
                  ELSE Request("DELETE /api/loans/:loanId", "/api/loans/:loanId",
                               Absent, header, NoBody, NoQuery,
                               [userEmail |-> <<>>, loanId |-> loanId])
         IN conc' = [conc EXCEPT ![s] = [FreeSlot EXCEPT !.stage = "received", !.req = r]]
    /\ ConcFrame

\* authMiddleware runs for the request of slot s
Authenticate(s) ==
    /\ conc[s].stage = "received"
    /\ LET a == authMiddleware(conc[s].req, now) IN
       conc' = IF a.ok THEN bindUser(conc, s, a.user)
               ELSE [conc EXCEPT ![s].stage = "responded",
                                 ![s].res = errorHandler(a.error)]
    /\ ConcFrame

\* authorizeRoles('superAdmin') runs for the delete of slot s, on its req.user
Authorize(s) ==
    /\ conc[s].stage = "authenticated"
    /\ conc[s].req.route = "DELETE /api/loans/:loanId"
    /\ LET z == authorizeRoles({"superAdmin"}, conc[s].user) IN
       conc' = IF z.ok THEN [conc EXCEPT ![s].stage = "authorized"]
               ELSE [conc EXCEPT ![s].stage = "responded",
                                 ![s].res = errorHandler(z.error)]
    /\ ConcFrame

\* the route handler runs for the request of slot s, on its req.user
Handle(s) ==
    /\ \/ conc[s].stage = "authenticated" /\ conc[s].req.route = "GET /api/loans"
       \/ conc[s].stage = "authorized"
    /\ LET o == IF conc[s].req.route = "GET /api/loans"
                THEN loansHandler(conc[s].req, conc[s].user)
                ELSE deleteLoanHandler(conc[s].req, conc[s].user)
       IN conc' = [conc EXCEPT ![s].stage = "responded", ![s].res = o.res]
    /\ ConcFrame

\* the response of slot s has been sent
Complete(s) ==
    /\ conc[s].stage = "responded"
    /\ conc' = [conc EXCEPT ![s] = FreeSlot]
    /\ ConcFrame

NextConc ==
    \/ \E s \in Slots : Arrive(s)
    \/ \E s \in Slots : Authenticate(s)
    \/ \E s \in Slots : Authorize(s)
    \/ \E s \in Slots : Handle(s)
    \/ \E s \in Slots : Complete(s)

SpecConc == InitConc /\ [][NextConc]_vars


-----------------------------------------------------------------------------
\* Vocabulary of the properties
Responded == phase = "responded"

LoanReadRoutes ==
    {"GET /api/loans", "GET /api/expired-loans", "GET /api/user-loans/:userEmail"}
ProtectedRoutes == LoanReadRoutes \cup {"DELETE /api/loans/:loanId"}

\* the stored loan with this id
Stored(id) == loansData[CHOOSE i \in 1..Len(loansData) : loansData[i].id = id]
Known(id) == \E i \in 1..Len(loansData) : loansData[i].id = id

\* a token is valid when a login issued it and it has not expired
ValidToken(tok) == tok \in issued /\ now < tok.exp

\* the token a request presents: the cookie's if it has one, else the header's
Presented(r) ==
    IF r.cookies.token \notin {Absent, Empty} THEN r.cookies.token
    ELSE r.authorization.token

NoTokenBody ==
    [status |-> "error", statusCode |-> 401,
     message |-> <<"Unauthorized - No token provided">>]
InvalidTokenBody ==
    [status |-> "error", statusCode |-> 401,
     message |-> <<"Unauthorized - Invalid token">>]

-----------------------------------------------------------------------------
\* C1: every loan of a 2xx answer of a loan-reading route has no totalLoan key
\* in its applicant when the identity's role is staff, and has the stored
\* totalLoan when the role is admin or superAdmin.
C1_RoleVisibility ==
    (Responded /\ req.route \in LoanReadRoutes /\ res.status = 200) =>
        /\ user # Undefined
        /\ user.role \in {"staff", "admin", "superAdmin"}
        /\ user.role = Presented(req).role
        /\ \A i \in 1..Len(res.body.data.loans) :
             LET loan == res.body.data.loans[i] IN
             /\ Known(loan.id)
             /\ user.role = "staff" => "totalLoan" \notin DOMAIN loan.applicant
             /\ user.role \in {"admin", "superAdmin"} =>
                  /\ "totalLoan" \in DOMAIN loan.applicant
                  /\ loan.applicant.totalLoan = Stored(loan.id).applicant.totalLoan

C1_Witness ==
    /\ Responded
    /\ req.route = "GET /api/user-loans/:userEmail"
    /\ res.status = 200
    /\ user.role = "staff"
    /\ Len(res.body.data.loans) = 2

\* C2: DELETE with a valid token answers 403 to staff and admin whether or not
\* the id exists, 404 to superAdmin for an unknown id, 200 to superAdmin for a
\* known id; no other identity ever gets a 200.
C2_DeleteStatus ==
    (Responded /\ req.route = "DELETE /api/loans/:loanId") =>
        /\ ValidToken(Presented(req)) =>
             LET role == Presented(req).role IN
             /\ role \in {"staff", "admin"} => res.status = 403
             /\ (role = "superAdmin" /\ ~Known(req.params.loanId)) => res.status = 404
             /\ (role = "superAdmin" /\ Known(req.params.loanId)) => res.status = 200
        /\ res.status = 200 =>
             /\ ValidToken(Presented(req))
             /\ Presented(req).role = "superAdmin"
             /\ user.role = "superAdmin"

C2_Witness ==
    /\ Responded
    /\ req.route = "DELETE /api/loans/:loanId"
    /\ ValidToken(Presented(req))
    /\ Presented(req).role = "admin"
    /\ Known(req.params.loanId)
    /\ res.status = 403

DefinedRoutes == ProtectedRoutes \cup {"POST /api/login", "POST /api/logout"}

CarriesNoToken(r) ==
    /\ r.cookies.token \in {Absent, Empty}
    /\ ~r.authorization.present \/ r.authorization.token \in {Absent, Empty}

\* C3: a request to a route other than login that carries no token (no token
\* cookie, no Authorization header token) is answered 401 with the no-token
\* message, and neither the store query nor the shaper runs for it.
C3_NoTokenIs401 ==
    (Responded /\ req.route \in DefinedRoutes \ {"POST /api/login"} /\ CarriesNoToken(req)) =>
        /\ res.status = 401
        /\ res.body = NoTokenBody
        /\ user = Undefined
        /\ \A k \in 1..Len(stages) : stages[k] \notin {"StoreQuery", "ResponseShaper"}

FailsVerification(tok) ==
    \/ tok.kind # "jwt"
    \/ tok.key # JWT_SECRET
    \/ now >= tok.iat + TokenTTL

\* C4: a protected route given a token that fails verification, by a bad
\* signature or format or by the clock having reached its expiry, answers 401
\* with the invalid-token message, which is not the no-token message.
C4_BadTokenIs401 ==
    (/\ Responded
     /\ req.route \in ProtectedRoutes
     /\ ~CarriesNoToken(req)
     /\ FailsVerification(Presented(req))) =>
        /\ res.status = 401
        /\ res.body = InvalidTokenBody
        /\ res.body.message # NoTokenBody.message

InvalidCredentialsResponse ==
    [status |-> 401, setCookie |-> NoCookie,
     body |-> [status |-> "error", statusCode |-> 401,
               message |-> <<"Invalid credentials">>]]

EmailKnown(e) == \E i \in 1..Len(staffsData) : e = Str(staffsData[i].email)

\* C5: a login with a stored record's email and that record's password
\* answers 200 with a token that decodes to the record's id, name, email and
\* role; a login with an unknown email and a login with a known email and a
\* wrong password answer the same 401 response.
C5_Login ==
    (Responded /\ req.route = "POST /api/login") =>
        LET e == req.body.email
            p == req.body.password
        IN /\ \A i \in 1..Len(staffsData) :
                (e = Str(staffsData[i].email) /\ p = Str(staffsData[i].password)) =>
                    /\ res.status = 200
                    /\ LET v == jwtVerify(res.body.data.token, JWT_SECRET, now) IN
                       /\ v.ok
                       /\ v.decoded.id = staffsData[i].id
                       /\ v.decoded.name = staffsData[i].name
                       /\ v.decoded.email = staffsData[i].email
                       /\ v.decoded.role = staffsData[i].role
           /\ (Truthy(e) /\ Truthy(p) /\ ~EmailKnown(e)) => res = InvalidCredentialsResponse
           /\ (/\ Truthy(p)
               /\ EmailKnown(e)
               /\ \A i \in 1..Len(staffsData) :
                    e = Str(staffsData[i].email) => p # Str(staffsData[i].password)) =>
                  res = InvalidCredentialsResponse

C5_Witness ==
    /\ Responded
    /\ req.route = "POST /api/login"
    /\ req.body.email = Str(<<"a", "@", "x">>)
    /\ req.body.password = Str(<<"p", "2">>)
    /\ res.status = 200
    /\ res.body.data.token.role = "admin"

BearerOnly(r) == r.cookies.token = Absent /\ r.authorization.present

IsIdentityOf(u, tok) ==
    /\ u # Undefined
    /\ u.id = tok.id
    /\ u.name = tok.name
    /\ u.email = tok.email
    /\ u.role = tok.role
    /\ u.iat = tok.iat

GateRefused ==
    /\ user = Undefined
    /\ res.status \in {401, 500}
    /\ res.body.status = "error"
    /\ stages = <<"AuthGate", "ErrorResponder">>

StoreRefs ==
    {loansData[i].ref : i \in 1..Len(loansData)}
        \cup {loansData[i].applicant.ref : i \in 1..Len(loansData)}

\* C9: for every role the records of a response are copies of the stored ones:
\* neither a returned record nor its applicant is the same object as a stored
\* record or a stored applicant.
C9_NoAliases ==
    (Responded /\ req.route \in LoanReadRoutes /\ res.status = 200) =>
        \A i \in 1..Len(res.body.data.loans) :
            /\ res.body.data.loans[i].ref \notin StoreRefs
            /\ res.body.data.loans[i].applicant.ref \notin StoreRefs

Instant(d) == d.h * 3600 + d.m * 60

Ids(loans) == [i \in 1..Len(loans) |-> loans[i].id]

\* C10: with a valid token GET /api/expired-loans answers exactly the stored
\* loans whose maturityDate is strictly before the current instant.
C10_ExpiredExactly ==
    (/\ Responded
     /\ req.route = "GET /api/expired-loans"
     /\ ValidToken(Presented(req))) =>
        /\ res.status = 200
        /\ \A i \in 1..Len(loansData) :
             (Instant(loansData[i].maturityDate) < now)
                <=> (\E k \in 1..Len(res.body.data.loans) :
                        res.body.data.loans[k].id = loansData[i].id)
        /\ Ids(res.body.data.loans) =
             Ids(SelectSeq(loansData, LAMBDA loan : Instant(loan.maturityDate) < now))

C10_Witness ==
    /\ Responded
    /\ req.route = "GET /api/expired-loans"
    /\ res.status = 200
    /\ \E i \in 1..Len(loansData) : Instant(loansData[i].maturityDate) = now
    /\ Len(res.body.data.loans) = 1

-----------------------------------------------------------------------------
\* two strings that differ at most in the case of their letters
CasePairs == {<<"A", "a">>, <<"B", "b">>, <<"E", "e">>, <<"J", "j">>, <<"M", "m">>, <<"X", "x">>}
SameLetter(c, d) == c = d \/ <<c, d>> \in CasePairs \/ <<d, c>> \in CasePairs
SameIgnoringCase(a, b) ==
    /\ Len(a) = Len(b)
    /\ \A i \in 1..Len(a) : SameLetter(a[i], b[i])

\* C11: GET /api/user-loans/:userEmail returns a loan exactly when its
\* applicant email equals the parameter up to letter case, and the same role
\* asking with a parameter that differs only in case gets the identical list.
C11_EmailIgnoresCase ==
    (/\ Responded
     /\ req.route = "GET /api/user-loans/:userEmail"
     /\ ValidToken(Presented(req))) =>
        /\ res.status = 200
        /\ Ids(res.body.data.loans) =
             Ids(SelectSeq(loansData,
                           LAMBDA loan : SameIgnoringCase(loan.applicant.email,
                                                          req.params.userEmail)))
        /\ \A other \in UserEmailInputs :
             SameIgnoringCase(other, req.params.userEmail) =>
                res = userLoansRoute([req EXCEPT !.params.userEmail = other], now).res

C11_Witness ==
    /\ Responded
    /\ req.route = "GET /api/user-loans/:userEmail"
    /\ req.params.userEmail = <<"M", "B", "@", "x">>
    /\ res.status = 200
    /\ Ids(res.body.data.loans) = <<"900199", "900200">>

StatusMatches(v) == Ids(SelectSeq(loansData, LAMBDA loan : loan.status = v))

\* C12 (as claimed): GET /api/loans with a valid token returns all stored
\* loans when no status is given and, for every status given, the empty one
\* included, exactly the loans whose status is string-equal to it.
C12_StatusFilterExact ==
    (Responded /\ req.route = "GET /api/loans" /\ ValidToken(Presented(req))) =>
        /\ res.status = 200
        /\ req.query.status = Undefined => Ids(res.body.data.loans) = Ids(loansData)
        /\ req.query.status # Undefined =>
             Ids(res.body.data.loans) = StatusMatches(req.query.status.v)

\* C12 (amended): GET /api/loans with a valid token returns all stored loans
\* when no status or an empty status is given, and exactly the loans whose
\* status is string-equal to a non-empty status given.
C12_StatusFilterNonEmpty ==
    (Responded /\ req.route = "GET /api/loans" /\ ValidToken(Presented(req))) =>
        /\ res.status = 200
        /\ req.query.status \in {Undefined, Str("")} =>
             Ids(res.body.data.loans) = Ids(loansData)
        /\ req.query.status \notin {Undefined, Str("")} =>
             Ids(res.body.data.loans) = StatusMatches(req.query.status.v)

C12_Witness ==
    /\ Responded
    /\ req.route = "GET /api/loans"
    /\ req.query.status = Str("")
    /\ res.status = 200
    /\ Ids(res.body.data.loans) = <<"900199", "900200", "900201">>

\* the messages of the errors jsonwebtoken throws
LibraryMessages == {<<"jwt malformed">>, <<"invalid signature">>, <<"jwt expired">>}

\* C13: every failure of a handler or a gate is answered with the envelope
\* {status: 'error', statusCode, message}; one that is not a deliberately
\* raised 400, 401, 403 or 404 is answered 500 with a generic message that
\* does not carry the internal error's message.
C13_ErrorEnvelope ==
    (Responded /\ req.route \in DefinedRoutes /\ res.status >= 400) =>
        /\ DOMAIN res.body = {"status", "statusCode", "message"}
        /\ res.body.status = "error"
        /\ res.body.statusCode = res.status
        /\ stages[Len(stages)] = "ErrorResponder"
        /\ res.status \notin {400, 401, 403, 404} =>
             /\ res.status = 500
             /\ res.body.message \notin LibraryMessages
             /\ res.body.message = <<"Internal Server Error">>

\* C14: a request that matches no route is answered 404 with
\* {status: 'error', message: 'Route <path> not found'}, token or no token.
C14_UnmatchedIs404 ==
    (Responded /\ req.route = "unmatched") =>
        /\ res.status = 404
        /\ res.body =
             [status |-> "error", message |-> <<"Route ", req.originalUrl, " not found">>]
        /\ res.setCookie = NoCookie
        /\ user = Undefined

C14_Witness ==
    /\ Responded
    /\ req.route = "unmatched"
    /\ req.originalUrl = "/api/loans/expired"
    /\ ValidToken(req.cookies.token)
    /\ res.status = 404

PipelineOrder == <<"AuthGate", "RoleGate", "StoreQuery", "ResponseShaper", "Envelope">>
Rank(stage) == CHOOSE k \in 1..Len(PipelineOrder) : PipelineOrder[k] = stage
Ran(stage) == \E k \in 1..Len(stages) : stages[k] = stage
Terminals == {"Envelope", "ErrorResponder"}

\* C15: a protected request goes through AuthGate, RoleGate (delete only),
\* StoreQuery, ResponseShaper, Envelope in that order: no store query before
\* the authentication gate bound an identity, no role gate without an
\* identity, no existence check of a delete before the role gate permitted,
\* and exactly one terminal stage, responded (2xx) or errored (4xx/5xx).
C15_StageOrder ==
    (Responded /\ req.route \in ProtectedRoutes) =>
        LET n == Len(stages) IN
        /\ n >= 2
        /\ stages[1] = "AuthGate"
        /\ stages[n] \in Terminals
        /\ \A k \in 1..(n - 1) :
             /\ stages[k] \notin Terminals
             /\ stages[k] \in {PipelineOrder[j] : j \in 1..Len(PipelineOrder)}
             /\ k > 1 => Rank(stages[k - 1]) < Rank(stages[k])
        /\ stages[n] = "Envelope" <=> res.status = 200
        /\ stages[n] = "ErrorResponder" <=> res.status >= 400
        /\ Ran("StoreQuery") => user # Undefined /\ ValidToken(Presented(req))
        /\ Ran("RoleGate") <=> (req.route = "DELETE /api/loans/:loanId" /\ user # Undefined)
        /\ (req.route = "DELETE /api/loans/:loanId" /\ Ran("StoreQuery")) =>
             user.role = "superAdmin"
        /\ Ran("ResponseShaper") <=> (req.route \in LoanReadRoutes /\ res.status = 200)

C15_Witness ==
    /\ Responded
    /\ req.route = "DELETE /api/loans/:loanId"
    /\ res.status = 404
    /\ stages = <<"AuthGate", "RoleGate", "StoreQuery", "ErrorResponder">>

\* C16: a token a login issued verifies at every time strictly before its
\* expiry, one hour after issue, and binds exactly the id, name, email and
\* role embedded at issue, those of the staff record; the role gate and the
\* shaper act on that role.
C16_RoundTrip ==
    (/\ Responded
     /\ req.route \in ProtectedRoutes
     /\ Presented(req) \in issued
     /\ now < Presented(req).iat + TokenTTL) =>
        LET tok == Presented(req) IN
        /\ user = [id |-> tok.id, name |-> tok.name, email |-> tok.email,
                   role |-> tok.role, iat |-> tok.iat, exp |-> tok.iat + TokenTTL]
        /\ \E i \in 1..Len(InitStaffs) :
             /\ InitStaffs[i].id = user.id
             /\ InitStaffs[i].name = user.name
             /\ InitStaffs[i].email = user.email
             /\ InitStaffs[i].role = user.role
        /\ req.route = "DELETE /api/loans/:loanId" =>
             (res.status = 403 <=> tok.role # "superAdmin")
        /\ req.route \in LoanReadRoutes =>
             /\ res.status = 200
             /\ \A k \in 1..Len(res.body.data.loans) :
                  "totalLoan" \in DOMAIN res.body.data.loans[k].applicant
                     <=> tok.role # "staff"

C16_Witness ==
    /\ Responded
    /\ req.route = "GET /api/expired-loans"
    /\ req.cookies.token \in issued
    /\ req.cookies.token.iat = TickStep
    /\ now = req.cookies.token.iat + TokenTTL - TickStep
    /\ user.role = "admin"
    /\ res.status = 200
    /\ res.body.results = 2

\* the token the request in slot s carries (these requests carry no cookie)
OwnToken(s) == conc[s].req.authorization.token

\* C17: whatever the interleaving of the requests in flight, the identity
\* bound to a request is the one decoded from its own token, and its response
\* is gated and shaped by that role only.
C17_OwnIdentity ==
    \A s \in Slots :
        /\ conc[s].stage \in {"authenticated", "authorized"} =>
             /\ ValidToken(OwnToken(s))
             /\ IsIdentityOf(conc[s].user, OwnToken(s))
        /\ conc[s].stage = "authorized" => OwnToken(s).role = "superAdmin"
        /\ (conc[s].stage = "responded" /\ ValidToken(OwnToken(s))) =>
             /\ IsIdentityOf(conc[s].user, OwnToken(s))
             /\ conc[s].req.route = "GET /api/loans" =>
                  /\ conc[s].res.status = 200
                  /\ \A k \in 1..Len(conc[s].res.body.data.loans) :
                       "totalLoan" \in DOMAIN conc[s].res.body.data.loans[k].applicant
                          <=> OwnToken(s).role # "staff"
             /\ conc[s].req.route = "DELETE /api/loans/:loanId" =>
                  (conc[s].res.status = 403 <=> OwnToken(s).role # "superAdmin")
        /\ (conc[s].stage = "responded" /\ ~ValidToken(OwnToken(s))) =>
             conc[s].res.status = 401

C17_Witness ==
    \E s, t \in Slots :
        /\ s # t
        /\ conc[s].stage = "responded"
        /\ conc[s].req.route = "GET /api/loans"
        /\ conc[s].res.status = 200
        /\ OwnToken(s).role = "staff"
        /\ conc[t].stage = "authenticated"
        /\ conc[t].user.role = "admin"

BadRequestResponse ==
    [status |-> 400, setCookie |-> NoCookie,
     body |-> [status |-> "error", statusCode |-> 400,
               message |-> <<"Email and password are required">>]]

\* C18: a login whose body lacks email or password, or has either empty, is
\* answered 400 before any credential lookup: 400 and not 401 also when the
\* email is unknown or the password wrong.
C18_MissingFieldIs400 ==
    (/\ Responded
     /\ req.route = "POST /api/login"
     /\ \/ req.body.email \in {Undefined, Str(<<>>)}
        \/ req.body.password \in {Undefined, Str(<<>>)}) =>
        /\ res = BadRequestResponse
        /\ ~Ran("CredentialLookup")
        /\ ~Ran("IssueToken")

C18_Witness ==
    /\ Responded
    /\ req.route = "POST /api/login"
    /\ req.body.email = Str(<<"n", "@", "x">>)
    /\ req.body.password = Str(<<>>)
    /\ res.status = 400

\* the stored loan at index i and a returned loan agree on every field but ref
\* and applicant, and their applicants on every field but ref and totalLoan
SameButRedaction(out, stored) ==
    /\ DOMAIN out = DOMAIN stored
    /\ \A f \in DOMAIN stored \ {"ref", "applicant"} : out[f] = stored[f]
    /\ DOMAIN out.applicant \cup {"totalLoan"} = DOMAIN stored.applicant \cup {"totalLoan"}
    /\ \A f \in DOMAIN out.applicant \ {"ref"} : out.applicant[f] = stored.applicant[f]

StoreIndex(id) == CHOOSE i \in 1..Len(loansData) : loansData[i].id = id

\* C19: the shaper keeps length and order and every field but the redacted
\* one: the i-th returned loan is the i-th selected stored loan with
\* applicant.totalLoan absent exactly for staff, and results is the number of
\* loans returned.
C19_ShapePreserves ==
    (Responded /\ req.route \in LoanReadRoutes /\ res.status = 200) =>
        LET out == res.body.data.loans IN
        /\ res.body.results = Len(out)
        /\ \A k \in 1..Len(out) :
             /\ Known(out[k].id)
             /\ SameButRedaction(out[k], Stored(out[k].id))
             /\ "totalLoan" \in DOMAIN out[k].applicant <=> user.role # "staff"
             /\ k > 1 => StoreIndex(out[k - 1].id) < StoreIndex(out[k].id)
        /\ \A role \in {"staff", "admin", "superAdmin", "other"} :
             LET again == processLoansByRole(out, role) IN
             /\ Len(again) = Len(out)
             /\ \A k \in 1..Len(out) : again[k].id = out[k].id

C19_Witness ==
    /\ Responded
    /\ req.route = "GET /api/loans"
    /\ req.query.status = Str("active")
    /\ res.status = 200
    /\ user.role = "staff"
    /\ Ids(res.body.data.loans) = <<"900199", "900201">>
    /\ res.body.results = 2

\* the token carries the id, name, email and role of the staff record i
TokenOfRecord(tok, i) ==
    /\ tok.kind = "jwt"
    /\ tok.key = JWT_SECRET
    /\ tok.id = staffsData[i].id
    /\ tok.name = staffsData[i].name
    /\ tok.email = staffsData[i].email
    /\ tok.role = staffsData[i].role
    /\ tok.exp = tok.iat + TokenTTL

LoginIssuesOnlyOnSuccess ==
    /\ \A tok \in issued : \E i \in 1..Len(staffsData) : TokenOfRecord(tok, i)
    /\ (Responded /\ res.setCookie.op = "set") =>
          req.route = "POST /api/login" /\ res.status = 200
    /\ (Responded /\ req.route = "POST /api/login" /\ res.status # 200) =>
          /\ res.status \in {400, 401}
          /\ res.setCookie = NoCookie
          /\ "data" \notin DOMAIN res.body
          /\ ~Ran("IssueToken")
    /\ (Responded /\ req.route = "POST /api/login" /\ res.status = 200) =>
          /\ res.setCookie.op = "set"
          /\ res.setCookie.value = res.body.data.token
          /\ res.body.data.token \in issued
          /\ \E i \in 1..Len(staffsData) :
               /\ TokenOfRecord(res.body.data.token, i)
               /\ req.body.email = Str(staffsData[i].email)
               /\ req.body.password = Str(staffsData[i].password)

\* C20: a token is issued and the token cookie set only by a login that passed
\* every check: a login answered 400 or 401 issues no token and sets no
\* cookie, and every token issued carries the id, name, email and role of one
\* staff record whose password was presented.
C20_IssueOnlyOnSuccess ==
    /\ []LoginIssuesOnlyOnSuccess
    /\ [][issued' # issued =>
            /\ req'.route = "POST /api/login"
            /\ res'.status = 200
            /\ issued' = issued \cup {res'.body.data.token}]_vars

C20_Witness ==
    /\ Responded
    /\ req.route = "POST /api/login"
    /\ req.body.email = Str(<<"e", "@", "x">>)
    /\ req.body.password = Str(<<"p", "2">>)
    /\ res.status = 401
    /\ res.setCookie = NoCookie
    /\ issued # {}

====
